---- MODULE Spec2Model ----
(***************************************************************************)
(* IEEE ICONAT 2025 proceedings monitor (src/checker.py).                  *)
(*                                                                         *)
(* Text is modelled by TLA+ strings (sequences of characters), the page by *)
(* its parse tree in document order, the state file by its content, and    *)
(* main() by one process that is started again and again.                  *)
(***************************************************************************)
EXTENDS Integers, Sequences, FiniteSets, TLC

(***************************************************************************)
(* Python string operations used by the program.                           *)
(***************************************************************************)

SetMin(S) == CHOOSE x \in S : \A y \in S : x <= y

SetMax(S) == CHOOSE x \in S : \A y \in S : x >= y

\* s[i] (1-based), a string of one character
CharAt(s, i) == SubSeq(s, i, i)

\* s[:n]
Prefix(s, n) == IF Len(s) <= n THEN s ELSE SubSeq(s, 1, n)

\* t in s
Contains(s, t) ==
    \E i \in 1..(Len(s) - Len(t) + 1) : SubSeq(s, i, i + Len(t) - 1) = t

UpperAlphabet == "ABCDEFGHIJKLMNOPQRSTUVWXYZ"

LowerAlphabet == "abcdefghijklmnopqrstuvwxyz"

LowerChar(c) ==
    LET at == {i \in 1..Len(UpperAlphabet) : CharAt(UpperAlphabet, i) = c}
    IN  IF at = {} THEN c ELSE CharAt(LowerAlphabet, SetMin(at))

\* s.lower()
RECURSIVE Lower(_)
Lower(s) ==
    IF Len(s) = 0 THEN ""
    ELSE IF Len(s) = 1 THEN LowerChar(s)
    ELSE Lower(SubSeq(s, 1, Len(s) \div 2))
         \o Lower(SubSeq(s, Len(s) \div 2 + 1, Len(s)))

IsSpace(c) == c \in {" ", "\n", "\t"}

\* c.isdigit()
IsDigit(c) == c \in {"0", "1", "2", "3", "4", "5", "6", "7", "8", "9"}

\* s.strip()
Strip(s) ==
    LET keep == {i \in 1..Len(s) : ~IsSpace(CharAt(s, i))}
    IN  IF keep = {} THEN "" ELSE SubSeq(s, SetMin(keep), SetMax(keep))

\* s.split("\n")
RECURSIVE SplitLines(_)
SplitLines(s) ==
    LET nl == {i \in 1..Len(s) : CharAt(s, i) = "\n"}
    IN  IF nl = {} THEN <<s>>
        ELSE <<SubSeq(s, 1, SetMin(nl) - 1)>>
             \o SplitLines(SubSeq(s, SetMin(nl) + 1, Len(s)))

\* sep.join(parts)
RECURSIVE Join(_, _)
Join(parts, sep) ==
    IF parts = <<>> THEN ""
    ELSE IF Len(parts) = 1 THEN parts[1]
    ELSE parts[1] \o sep \o Join(Tail(parts), sep)

\* [f(x) for x in xs if keep(x)] with f = strip and keep = non-empty
RECURSIVE StripNonEmpty(_)
StripNonEmpty(xs) ==
    IF xs = <<>> THEN <<>>
    ELSE (IF Strip(xs[1]) = "" THEN <<>> ELSE <<Strip(xs[1])>>)
         \o StripNonEmpty(Tail(xs))

RECURSIVE Concat(_)
Concat(seqs) == IF seqs = <<>> THEN <<>> ELSE seqs[1] \o Concat(Tail(seqs))

(***************************************************************************)
(* The parse tree BeautifulSoup builds: the nodes in document order, each  *)
(* with the index of its parent (0 is the document).  A text node has tag  *)
(* "#text".                                                                *)
(***************************************************************************)

El(tag, parent) == [tag |-> tag, parent |-> parent, text |-> "", href |-> ""]

Tx(text, parent) == [tag |-> "#text", parent |-> parent, text |-> text, href |-> ""]

Anchor(href, parent) == [tag |-> "a", parent |-> parent, text |-> "", href |-> href]

\* node j lies below node i (i = 0: the whole document)
RECURSIVE IsUnder(_, _, _)
IsUnder(nodes, j, i) ==
    IF j = 0 THEN FALSE
    ELSE nodes[j].parent = i \/ IsUnder(nodes, nodes[j].parent, i)

\* the indices in S in ascending order
RECURSIVE Ascending(_)
Ascending(S) ==
    IF S = {} THEN <<>> ELSE <<SetMin(S)>> \o Ascending(S \ {SetMin(S)})

\* element.get_text(separator=sep, strip=True)
GetText(nodes, i, sep) ==
    LET under == Ascending({j \in 1..Len(nodes) :
                               nodes[j].tag = "#text" /\ IsUnder(nodes, j, i)})
    IN  Join(StripNonEmpty([k \in 1..Len(under) |-> nodes[under[k]].text]), sep)

\* element.find_all(tags), in document order
FindAll(nodes, i, tags) ==
    Ascending({j \in 1..Len(nodes) : nodes[j].tag \in tags /\ IsUnder(nodes, j, i)})

\* element.find_parent(tags): the nearest enclosing one, 0 for None
RECURSIVE FindParent(_, _, _)
FindParent(nodes, i, tags) ==
    LET up == nodes[i].parent
    IN  IF up = 0 THEN 0
        ELSE IF nodes[up].tag \in tags THEN up
        ELSE FindParent(nodes, up, tags)

(***************************************************************************)
(* parse_proceedings                                                       *)
(***************************************************************************)

YearTokens == <<"2022", "2023", "2024", "2025">>

ConferenceTokens ==
    <<"iconat", "international conference", "conference for advancement",
      "advancement in technology">>

ElementConferenceTokens ==
    <<"iconat", "international conference", "conference for advancement">>

\* any(token in text for token in tokens)
ContainsAny(text, tokens) == \E k \in 1..Len(tokens) : Contains(text, tokens[k])

HasYear(text) == ContainsAny(text, YearTokens)

ShortLine == 100

DigitWindow == 10

LookAhead == 2

MinTextLen == 20

KeyLen == 100

\* the lines of soup.get_text(separator="\n", strip=True)
PageLines(nodes) == StripNonEmpty(SplitLines(GetText(nodes, 0, "\n")))

\* the look-ahead test of strategy 1
LooksRelated(next_line) ==
    \/ Contains(Lower(next_line), "location")
    \/ Len(next_line) < ShortLine
    \/ \E k \in 1..Len(Prefix(next_line, DigitWindow)) : IsDigit(CharAt(next_line, k))

\* the inner loop of strategy 1: j runs from `j` to LookAhead
RECURSIVE Absorb(_, _, _, _)
Absorb(lines, i, j, entry_text) ==
    IF j > LookAhead THEN entry_text
    ELSE IF i + j <= Len(lines)
         THEN IF LooksRelated(lines[i + j])
              THEN Absorb(lines, i, j + 1, entry_text \o " " \o lines[i + j])
              ELSE entry_text
         ELSE Absorb(lines, i, j + 1, entry_text)

IsAnchorLine(line) ==
    HasYear(line) /\ ContainsAny(Lower(line), ConferenceTokens)

\* Strategy 1: anchor lines of the flattened text, each with its look-ahead
Strategy1(nodes) ==
    LET lines == PageLines(nodes)
    IN  Concat([i \in 1..Len(lines) |->
                  IF IsAnchorLine(lines[i])
                  THEN <<Strip(Absorb(lines, i, 1, lines[i]))>>
                  ELSE <<>>])

Strategy2Tags == {"li", "div", "p", "span", "article"}

\* Strategy 2: structural elements whose text has a year and a conference token
Strategy2(nodes) ==
    LET found == FindAll(nodes, 0, Strategy2Tags)
    IN  Concat([k \in 1..Len(found) |->
                  LET text == GetText(nodes, found[k], " ")
                  IN  IF /\ Len(text) > MinTextLen
                         /\ HasYear(text)
                         /\ ContainsAny(Lower(text), ElementConferenceTokens)
                      THEN <<text>>
                      ELSE <<>>])

HeadingTags == {"h1", "h2", "h3", "h4", "h5", "h6", "a", "button"}

ContainerTags == {"div", "section", "article", "main"}

SectionTags == {"li", "div", "p"}

IsProceedingsHeading(nodes, h) ==
    \/ Contains(GetText(nodes, h, ""), "All Proceedings")
    \/ Contains(Lower(nodes[h].href), "all-proceedings")

\* the container of the first "All Proceedings" heading that has one, 0 for None
AllProceedingsSection(nodes) ==
    LET hits == {h \in 1..Len(nodes) :
                   /\ nodes[h].tag \in HeadingTags
                   /\ IsProceedingsHeading(nodes, h)
                   /\ FindParent(nodes, h, ContainerTags) # 0}
    IN  IF hits = {} THEN 0 ELSE FindParent(nodes, SetMin(hits), ContainerTags)

\* Strategy 3: the elements of the "All Proceedings" section that have a year
Strategy3(nodes) ==
    LET section == AllProceedingsSection(nodes)
        found == FindAll(nodes, section, SectionTags)
    IN  IF section = 0 THEN <<>>
        ELSE Concat([k \in 1..Len(found) |->
                       LET text == GetText(nodes, found[k], " ")
                       IN  IF Len(text) > MinTextLen /\ HasYear(text)
                           THEN <<text>>
                           ELSE <<>>])

\* a key that is the whole lower-cased entry
WholeKey(entry) == Lower(entry)

\* entry_key = entry.lower()[:100]
EntryKey(entry) == Prefix(Lower(entry), KeyLen)

\* remove duplicates while preserving order
RECURSIVE UniqueFrom(_, _)
UniqueFrom(entries, seen) ==
    IF entries = <<>> THEN <<>>
    ELSE IF EntryKey(entries[1]) \in seen
         THEN UniqueFrom(Tail(entries), seen)
         ELSE <<entries[1]>>
              \o UniqueFrom(Tail(entries), seen \cup {EntryKey(entries[1])})

UniqueEntries(entries) == UniqueFrom(entries, {})

\* strategy 2 run whatever strategy 1 found
AfterStrategy2Always(nodes, entries) == entries \o Strategy2(nodes)

\* strategy 2 runs only when strategy 1 found nothing
AfterStrategy2(nodes, entries) ==
    IF entries = <<>> THEN entries \o Strategy2(nodes) ELSE entries

\* strategy 3 runs whatever the earlier strategies found
AfterStrategy3(nodes, entries) == entries \o Strategy3(nodes)

\* the entries before de-duplication
CollectEntries(nodes) ==
    AfterStrategy3(nodes, AfterStrategy2(nodes, Strategy1(nodes)))

\* page: [ok, nodes]; a page the parser raises on gives [] (except Exception)
parse_proceedings(page) ==
    IF page.ok THEN UniqueEntries(CollectEntries(page.nodes)) ELSE <<>>

(***************************************************************************)
(* check_for_2025_iconat                                                   *)
(***************************************************************************)

TARGET_YEAR == "2025"

TARGET_KEYWORD == "ICONAT"

EntryMatches(entry) ==
    Contains(entry, TARGET_YEAR) /\ Contains(Lower(entry), Lower(TARGET_KEYWORD))

\* a check that takes the year from one entry and the keyword from another
check_across_entries(entries) ==
    LET years == {k \in 1..Len(entries) : Contains(entries[k], TARGET_YEAR)}
        keywords == {k \in 1..Len(entries) :
                        Contains(Lower(entries[k]), Lower(TARGET_KEYWORD))}
    IN  IF years = {} \/ keywords = {} THEN 0 ELSE SetMin(years \cup keywords)

\* the index of the entry returned, 0 for None
check_for_2025_iconat(entries) ==
    LET hits == {k \in 1..Len(entries) : EntryMatches(entries[k])}
    IN  IF hits = {} THEN 0 ELSE SetMin(hits)

(***************************************************************************)
(* The pages the site may serve.                                           *)
(***************************************************************************)

\* text nodes per page of plain listings
MaxTexts == 2

ScenarioALine == "ICONAT 2025 Proceedings - Location: TBD"

Iconat2024Line == "  2024 ICONAT \n"

Other2025Line == "2025 International Conference on Robotics"

Iconat2023Lines == "2023 ICONAT\nPune, India"

PlainLine == "Browse all volumes"

LongPlainLine ==
    "About this archive of conference records and the publisher terms of use for readers and authors everywhere online"

LongPrefix ==
    "Proceedings of the International Conference for Advancement in Technology (ICONAT), 2024 edition, volume "

Long2024Line == LongPrefix \o "one"

Long2025Line == LongPrefix \o "two, with the 2025 papers"

\* Long2024Line in capitals
Capital2024Line ==
    "PROCEEDINGS OF THE INTERNATIONAL CONFERENCE FOR ADVANCEMENT IN TECHNOLOGY (ICONAT), 2024 EDITION, VOLUME ONE"

ListingTexts ==
    {ScenarioALine, Iconat2024Line, Other2025Line, Iconat2023Lines, PlainLine,
     LongPlainLine, Long2024Line, Long2025Line, Capital2024Line}

\* one table cell per text: <td>text</td> ...
LinePage(texts) ==
    [ok |-> TRUE,
     nodes |-> [n \in 1..(2 * Len(texts)) |->
                  IF n % 2 = 1 THEN El("td", 0) ELSE Tx(texts[n \div 2], n - 1)]]

LinePages ==
    {LinePage(texts) : texts \in UNION {[1..n -> ListingTexts] : n \in 0..MaxTexts}}

\* <box> <head>title</head> <ul> <li> <b>name</b> <span>place</span> </li> </ul> </box>
SectionPage(box, head, title, name, place) ==
    [ok |-> TRUE,
     nodes |-> <<El(box, 0),
                 IF head = "a" THEN Anchor("/xpl/conhome/1845744/All-Proceedings", 1)
                               ELSE El(head, 1),
                 Tx(title, 2),
                 El("ul", 1), El("li", 4),
                 El("b", 5), Tx(name, 6),
                 El("span", 5), Tx(place, 8)>>]

SectionPages ==
    {SectionPage(box, head, title, name, place) :
        box \in {"div", "table"},
        head \in {"h2", "a", "td"},
        title \in {"All Proceedings", "Conferences"},
        name \in {"ICONAT", "Advancement in Technology", "Workshop series"},
        place \in {"2024 Goa", "in 2025, Pune, India", "ICONAT 2025 Pune India"}}

\* a page BeautifulSoup raises on
BrokenPage == [ok |-> FALSE, nodes |-> <<>>]

Pages == LinePages \cup SectionPages \cup {BrokenPage}

\* the pages served to the monitor's runs
FetchPages ==
    {LinePage(<<ScenarioALine>>),
     LinePage(<<Iconat2024Line, Other2025Line>>),
     LinePage(<<Iconat2024Line>>),
     LinePage(<<PlainLine>>)}

(***************************************************************************)
(* The state file                                                          *)
(***************************************************************************)

EmptyDict == [k \in {} |-> FALSE]

\* layout: how the text of a JSON object is laid out ("" when there is none)
Absent == [kind |-> "absent", obj |-> EmptyDict, layout |-> ""]

\* content json.load rejects with JSONDecodeError (empty or cut short included)
Garbled == [kind |-> "garbled", obj |-> EmptyDict, layout |-> ""]

\* bytes that are not UTF-8: reading raises UnicodeDecodeError
Undecodable == [kind |-> "undecodable", obj |-> EmptyDict, layout |-> ""]

\* valid JSON that is not an object, such as [] or null
NonObject == [kind |-> "nonobject", obj |-> EmptyDict, layout |-> ""]

\* the text json.dump(obj, f, indent=2) writes
Json(obj) == [kind |-> "object", obj |-> obj, layout |-> "indent2"]

\* the same object written on one line, as another writer would
Compact(obj) == [kind |-> "object", obj |-> obj, layout |-> "compact"]

FileContents ==
    {Absent, Garbled, Undecodable, NonObject,
     Json([notified |-> FALSE]), Json([notified |-> TRUE]), Json(EmptyDict),
     Json([notified |-> FALSE, owner |-> TRUE]),
     Json([notified |-> TRUE, owner |-> TRUE]),
     Compact([notified |-> FALSE]), Compact([notified |-> FALSE, owner |-> TRUE])}

\* d.get(key, FALSE)
Get(d, key) == IF key \in DOMAIN d THEN d[key] ELSE FALSE

\* d[key] = value
Put(d, key, value) ==
    [k \in DOMAIN d \cup {key} |-> IF k = key THEN value ELSE d[k]]

\* the notified flag a run reading the file without error would see
Notified(f) == f.kind = "object" /\ Get(f.obj, "notified")

\* a default state that says the notification has been sent
notified_state == [notified |-> TRUE]

default_state == [notified |-> FALSE]

\* how a write of the state file can end
WriteOutcomes == {"written", "open_fails", "write_fails"}

\* save_state: the file afterwards; open(.., "w") truncates before json.dump writes
FileAfterSave(f, state, w) ==
    CASE w = "written" -> Json(state)
      [] w = "open_fails" -> f
      [] w = "write_fails" -> Garbled

\* save_state re-raises the IOError
SaveRaises(w) == w # "written"

(***************************************************************************)
(* main(): one invocation after another                                    *)
(***************************************************************************)

VARIABLES
    file,        \* content of state.json
    site,        \* the pages fetch_page may return
    procs,       \* the processes that run main()
    local,       \* per process: position in main() and its local variables
    run,         \* per process: what its current (or last) run has done
    runs,        \* invocations started
    sends,       \* calls of send_notification, all runs together
    sendFailed,  \* some run has returned after a failed send and a save that worked
    env,         \* what the environment may do: outcomes of reads, writes, fetches
    overlapped   \* two runs have been in progress at the same time

vars == <<file, site, procs, local, run, runs, sends, sendFailed, env, overlapped>>

Procs == {"p1", "p2"}

\* invocations of main()
MaxRuns == 3

\* every outcome of a read, a write and a fetch; MaxRuns invocations
AnyEnv ==
    [reads |-> BOOLEAN, writes |-> WriteOutcomes, fetched |-> BOOLEAN,
     forever |-> FALSE, limit |-> MaxRuns]

InitLocal ==
    [pc |-> "idle", state |-> EmptyDict, html |-> BrokenPage, entries |-> <<>>,
     matching |-> 0, email_sent |-> FALSE]

InitRun ==
    [start |-> Absent,      \* the state file when the run began
     load |-> "",           \* how load_state ended: "returned" or "raised"
     loaded |-> Absent,     \* what load_state returned
     afterLoad |-> Absent,  \* the state file when load_state returned
     fetches |-> 0, sends |-> 0,
     parses |-> 0,          \* calls of parse_proceedings
     checks |-> 0,          \* calls of check_for_2025_iconat
     saves |-> 0,           \* calls of save_state
     loadSaves |-> 0,       \* those made by load_state
     outcome |-> "", rc |-> 0]

Init ==
    /\ file \in FileContents
    /\ site = FetchPages
    /\ procs = {"p1"}
    /\ local = [p \in Procs |-> InitLocal]
    /\ run = [p \in Procs |-> InitRun]
    /\ runs = 0
    /\ sends = 0
    /\ sendFailed = FALSE
    /\ env = AnyEnv
    /\ overlapped = FALSE

\* a main() that returns 0 whatever happened
ReturnZero(r, outcome, code) == [r EXCEPT !.outcome = outcome, !.rc = 0]

\* return code from main()
Return(r, outcome, code) == [r EXCEPT !.outcome = outcome, !.rc = code]

\* load_state returned value (a file content) with the file as it is then
Loaded(r, value, f) ==
    [r EXCEPT !.load = "returned", !.loaded = value, !.afterLoad = f]

\* the scheduler starts main()
Start(p) ==
    /\ p \in procs
    /\ local[p].pc = "idle"
    /\ env.forever \/ runs < env.limit
    /\ runs' = IF runs < env.limit THEN runs + 1 ELSE runs
    /\ local' = [local EXCEPT ![p] = [InitLocal EXCEPT !.pc = "load"]]
    /\ run' = [run EXCEPT ![p] = [InitRun EXCEPT !.start = file]]
    /\ overlapped' = (overlapped \/ \E q \in procs \ {p} : local[q].pc # "idle")
    /\ UNCHANGED <<file, site, procs, sends, sendFailed, env>>

\* load_state up to its return or its fall through to the default, and main's
\* test of state.get("notified", False)
LoadRead(p) ==
    /\ local[p].pc = "load"
    /\ \E readable \in env.reads :
         IF file.kind = "absent" \/ ~readable \/ file.kind = "garbled"
         THEN \* no file, IOError or JSONDecodeError: the default state
              /\ local' = [local EXCEPT ![p].pc = "heal"]
              /\ run' = run
         ELSE IF file.kind = "undecodable"
         THEN \* UnicodeDecodeError is not caught by load_state
              /\ local' = [local EXCEPT ![p].pc = "idle"]
              /\ run' = [run EXCEPT ![p] =
                           Return([@ EXCEPT !.load = "raised"], "UnexpectedError", 1)]
         ELSE IF file.kind = "nonobject"
         THEN \* load_state returns the list; state.get raises AttributeError
              /\ local' = [local EXCEPT ![p].pc = "idle"]
              /\ run' = [run EXCEPT ![p] =
                           Return(Loaded(@, file, file), "UnexpectedError", 1)]
         ELSE IF Get(file.obj, "notified")
         THEN /\ local' = [local EXCEPT ![p].pc = "idle", ![p].state = file.obj]
              /\ run' = [run EXCEPT ![p] =
                           Return(Loaded(@, file, file), "AlreadyNotified", 0)]
         ELSE /\ local' = [local EXCEPT ![p].pc = "fetch", ![p].state = file.obj]
              /\ run' = [run EXCEPT ![p] = Loaded(@, file, file)]
    /\ UNCHANGED <<file, site, procs, runs, sends, sendFailed, env, overlapped>>

\* load_state's save_state(default_state), and main's test of the flag
LoadDefault(p) ==
    /\ local[p].pc = "heal"
    /\ \E w \in env.writes :
         /\ file' = FileAfterSave(file, default_state, w)
         /\ IF SaveRaises(w)
            THEN /\ local' = [local EXCEPT ![p].pc = "idle"]
                 /\ run' = [run EXCEPT ![p] =
                              Return([@ EXCEPT !.saves = @ + 1, !.loadSaves = @ + 1,
                                               !.load = "raised"],
                                     "UnexpectedError", 1)]
            ELSE /\ local' = [local EXCEPT ![p].pc = "fetch",
                                           ![p].state = default_state]
                 /\ run' = [run EXCEPT ![p] =
                              Loaded([@ EXCEPT !.saves = @ + 1, !.loadSaves = @ + 1],
                                     Json(default_state), file')]
    /\ UNCHANGED <<site, procs, runs, sends, sendFailed, env, overlapped>>

\* fetch_page: None (or no content) or a page
Fetch(p) ==
    /\ local[p].pc = "fetch"
    /\ \E got \in env.fetched, page \in site :
         IF got
         THEN /\ local' = [local EXCEPT ![p].pc = "parse", ![p].html = page]
              /\ run' = [run EXCEPT ![p].fetches = @ + 1]
         ELSE /\ local' = [local EXCEPT ![p].pc = "idle"]
              /\ run' = [run EXCEPT ![p] =
                           Return([@ EXCEPT !.fetches = @ + 1], "FetchFailed", 1)]
    /\ UNCHANGED <<file, site, procs, runs, sends, sendFailed, env, overlapped>>

\* a parse whose error reaches main
ParseRaising(p) ==
    /\ local[p].pc = "parse"
    /\ LET found == parse_proceedings(local[p].html)
       IN  IF ~local[p].html.ok
           THEN /\ local' = [local EXCEPT ![p].pc = "idle"]
                /\ run' = [run EXCEPT ![p] =
                             Return([@ EXCEPT !.parses = @ + 1], "UnexpectedError", 1)]
           ELSE IF found = <<>>
           THEN /\ local' = [local EXCEPT ![p].pc = "idle", ![p].entries = found]
                /\ run' = [run EXCEPT ![p] =
                             Return([@ EXCEPT !.parses = @ + 1], "NoEntriesFound", 0)]
           ELSE /\ local' = [local EXCEPT ![p].pc = "check", ![p].entries = found]
                /\ run' = [run EXCEPT ![p].parses = @ + 1]
    /\ UNCHANGED <<file, site, procs, runs, sends, sendFailed, env, overlapped>>

\* entries = parse_proceedings(html_content)
Parse(p) ==
    /\ local[p].pc = "parse"
    /\ LET found == parse_proceedings(local[p].html)
       IN  IF found = <<>>
           THEN /\ local' = [local EXCEPT ![p].pc = "idle", ![p].entries = found]
                /\ run' = [run EXCEPT ![p] =
                             Return([@ EXCEPT !.parses = @ + 1], "NoEntriesFound", 0)]
           ELSE /\ local' = [local EXCEPT ![p].pc = "check", ![p].entries = found]
                /\ run' = [run EXCEPT ![p].parses = @ + 1]
    /\ UNCHANGED <<file, site, procs, runs, sends, sendFailed, env, overlapped>>

\* Check with a save of notified=True on the no-match path
CheckSavingState(p) ==
    /\ local[p].pc = "check"
    /\ LET hit == check_for_2025_iconat(local[p].entries)
       IN  IF hit = 0
           THEN /\ local' = [local EXCEPT ![p].pc = "idle", ![p].matching = hit]
                /\ run' = [run EXCEPT ![p] = Return([@ EXCEPT !.checks = @ + 1], "NoMatchYet", 0)]
                /\ file' = Json(Put(local[p].state, "notified", TRUE))
           ELSE /\ local' = [local EXCEPT ![p].pc = "send", ![p].matching = hit]
                /\ run' = [run EXCEPT ![p].checks = @ + 1]
                /\ file' = file
    /\ UNCHANGED <<site, procs, runs, sends, sendFailed, env, overlapped>>

\* matching_entry = check_for_2025_iconat(entries)
Check(p) ==
    /\ local[p].pc = "check"
    /\ LET hit == check_for_2025_iconat(local[p].entries)
       IN  IF hit = 0
           THEN /\ local' = [local EXCEPT ![p].pc = "idle", ![p].matching = hit]
                /\ run' = [run EXCEPT ![p] = Return([@ EXCEPT !.checks = @ + 1], "NoMatchYet", 0)]
           ELSE /\ local' = [local EXCEPT ![p].pc = "send", ![p].matching = hit]
                /\ run' = [run EXCEPT ![p].checks = @ + 1]
    /\ UNCHANGED <<file, site, procs, runs, sends, sendFailed, env, overlapped>>

\* a send that is tried again in the same run when it fails
SendRetry(p) ==
    /\ local[p].pc = "send"
    /\ \E delivered \in BOOLEAN :
         local' = [local EXCEPT ![p].pc = IF delivered THEN "save" ELSE "send",
                                ![p].email_sent = delivered]
    /\ run' = [run EXCEPT ![p].sends = @ + 1]
    /\ sends' = sends + 1
    /\ UNCHANGED <<file, site, procs, runs, sendFailed, env, overlapped>>

\* email_sent = send_notification(matching_entry)
Send(p) ==
    /\ local[p].pc = "send"
    /\ \E delivered \in BOOLEAN :
         local' = [local EXCEPT ![p].pc = "save", ![p].email_sent = delivered]
    /\ run' = [run EXCEPT ![p].sends = @ + 1]
    /\ sends' = sends + 1
    /\ UNCHANGED <<file, site, procs, runs, sendFailed, env, overlapped>>

\* what main returns after its save_state
SaveOutcome(email_sent, w) ==
    IF SaveRaises(w) THEN "UnexpectedError"
    ELSE IF email_sent THEN "NotifiedSuccessfully"
    ELSE "NotifiedButSendFailed"

\* state["notified"] = True; save_state(state); return 0 or 1
Save(p) ==
    /\ local[p].pc = "save"
    /\ LET state == Put(local[p].state, "notified", TRUE)
       IN  \E w \in env.writes :
             /\ file' = FileAfterSave(file, state, w)
             /\ local' = [local EXCEPT ![p].pc = "idle", ![p].state = state]
             /\ run' = [run EXCEPT ![p] =
                          Return([@ EXCEPT !.saves = @ + 1],
                                 SaveOutcome(local[p].email_sent, w),
                                 IF SaveOutcome(local[p].email_sent, w)
                                      = "NotifiedSuccessfully" THEN 0 ELSE 1)]
             /\ sendFailed' =
                  (sendFailed
                     \/ SaveOutcome(local[p].email_sent, w) = "NotifiedButSendFailed")
    /\ UNCHANGED <<site, procs, runs, sends, env, overlapped>>

\* the process is killed between two steps
Kill(p) ==
    /\ local[p].pc # "idle"
    /\ local' = [local EXCEPT ![p].pc = "idle"]
    /\ run' = [run EXCEPT ![p] = Return(@, "Killed", 137)]
    /\ UNCHANGED <<file, site, procs, runs, sends, sendFailed, env, overlapped>>

\* the process is killed inside save_state, after open() has truncated the file
KillInWrite(p) ==
    /\ local[p].pc \in {"heal", "save"}
    /\ file' = Garbled
    /\ local' = [local EXCEPT ![p].pc = "idle"]
    /\ run' = [run EXCEPT ![p] =
                 Return([@ EXCEPT !.saves = @ + 1,
                                  !.loadSaves = @ + (IF local[p].pc = "heal" THEN 1 ELSE 0)],
                        "Killed", 137)]
    /\ UNCHANGED <<site, procs, runs, sends, sendFailed, env, overlapped>>

Next ==
    \E p \in Procs :
        \/ Start(p)
        \/ LoadRead(p)
        \/ LoadDefault(p)
        \/ Fetch(p)
        \/ Parse(p)
        \/ Check(p)
        \/ Send(p)
        \/ Save(p)
        \/ Kill(p)
        \/ KillInWrite(p)

Spec == Init /\ [][Next]_vars

(***************************************************************************)
(* parse_proceedings and check_for_2025_iconat on every page of Pages      *)
(***************************************************************************)

InitParse ==
    /\ file = Json(default_state)
    /\ site = Pages
    /\ procs = {"p1"}
    /\ \E page \in Pages :
         local = [p \in Procs |->
                    IF p = "p1"
                    THEN [InitLocal EXCEPT !.pc = "parse", !.state = default_state,
                                           !.html = page]
                    ELSE InitLocal]
    /\ run = [p \in Procs |->
                IF p = "p1" THEN [InitRun EXCEPT !.start = file, !.fetches = 1]
                ELSE InitRun]
    /\ runs = 1
    /\ sends = 0
    /\ sendFailed = FALSE
    /\ env = AnyEnv
    /\ overlapped = FALSE

NextParse == \E p \in Procs : Parse(p) \/ Check(p)

SpecParse == InitParse /\ [][NextParse]_vars

\* the pages on which a run finds the ICONAT 2025 entry
MatchingPages ==
    {page \in FetchPages \cup SectionPages :
        check_for_2025_iconat(parse_proceedings(page)) # 0}

\* reads of an existing file work, saves succeed, every fetch returns a page,
\* and the scheduler goes on starting runs
GoodEnv ==
    [reads |-> {TRUE}, writes |-> {"written"}, fetched |-> {TRUE},
     forever |-> TRUE, limit |-> MaxRuns]

\* any state file, a site that lists the ICONAT 2025 entry, a good environment
InitGood ==
    /\ file \in FileContents
    /\ site = MatchingPages
    /\ procs = {"p1"}
    /\ local = [p \in Procs |-> InitLocal]
    /\ run = [p \in Procs |-> InitRun]
    /\ runs = 0
    /\ sends = 0
    /\ sendFailed = FALSE
    /\ env = GoodEnv
    /\ overlapped = FALSE

\* the steps of runs that are not killed
NextGood ==
    \E p \in Procs :
        \/ Start(p)
        \/ LoadRead(p)
        \/ LoadDefault(p)
        \/ Fetch(p)
        \/ Parse(p)
        \/ Check(p)
        \/ Send(p)
        \/ Save(p)

\* invocations of the two processes together
MaxConcRuns == 2

\* saves succeed; reads and fetches may fail; MaxConcRuns invocations
SavingEnv ==
    [reads |-> BOOLEAN, writes |-> {"written"}, fetched |-> BOOLEAN,
     forever |-> FALSE, limit |-> MaxConcRuns]

\* the listing before and after the ICONAT 2025 entry appears
ListingPages == {LinePage(<<Iconat2024Line>>), LinePage(<<ScenarioALine>>)}

\* two processes run main() against the same state file, with no lock
InitConc ==
    /\ file \in FileContents
    /\ site = ListingPages
    /\ procs = {"p1", "p2"}
    /\ local = [p \in Procs |-> InitLocal]
    /\ run = [p \in Procs |-> InitRun]
    /\ runs = 0
    /\ sends = 0
    /\ sendFailed = FALSE
    /\ env = SavingEnv
    /\ overlapped = FALSE

\* runs of the two processes, interleaved step by step, none of them killed
SpecConc == InitConc /\ [][NextGood]_vars

\* the steps of a run that wait for the file system, the network or the mail
\* server, and the start of a run by the scheduler
IOSteps ==
    \E p \in Procs :
        \/ Start(p)
        \/ LoadRead(p)
        \/ LoadDefault(p)
        \/ Fetch(p)
        \/ Send(p)
        \/ Save(p)

\* parse_proceedings and check_for_2025_iconat are computations that return
Computing(p) == local[p].pc \in {"parse", "check"}

\* the scheduler starts run after run and every run goes on to its return
SpecGood ==
    /\ InitGood
    /\ [][NextGood]_vars
    /\ WF_vars(IOSteps)
    /\ \A p \in Procs : Computing(p) ~> ~Computing(p)

(***************************************************************************)
(* Properties                                                              *)
(***************************************************************************)

Transient == {"FetchFailed", "NoEntriesFound", "NoMatchYet"}

\* the run of p has passed parse_proceedings
Parsed(p) == local[p].pc # "parse" /\ local[p].html.ok

\* C1: over any sequence of runs, killed runs and failed saves included,
\* send_notification is called at most once in total.
C1_AtMostOnceNotification == sends <= 1

\* C2: once the state file holds notified=true it holds it at every later
\* point: no step writes notified=false (or anything else) over a persisted true.
C2_MonotonicState == [][Notified(file) => Notified(file')]_vars

\* C3: a run started with notified=true persisted neither fetches nor sends
\* nor writes the state, and returns AlreadyNotified with exit status 0.
C3_IdempotentNoOp ==
    \A p \in procs :
        Notified(run[p].start) =>
            /\ run[p].fetches = 0
            /\ run[p].sends = 0
            /\ run[p].saves = 0
            /\ (local[p].pc = "idle" /\ run[p].outcome # "Killed"
                  => run[p].outcome = "AlreadyNotified" /\ run[p].rc = 0)

\* C4: a run whose send failed (and whose save worked) leaves notified=true
\* persisted and returns NotifiedButSendFailed with a non-zero status, and no
\* later run calls send_notification.
C4_FailedSendTerminal ==
    \A p \in procs :
        /\ (/\ local[p].pc = "idle"
            /\ run[p].sends > 0
            /\ ~local[p].email_sent
            /\ run[p].outcome \notin {"Killed", "UnexpectedError"})
              => /\ run[p].outcome = "NotifiedButSendFailed"
                 /\ run[p].rc # 0
                 /\ Notified(file)
        /\ (sendFailed /\ local[p].pc # "idle") => run[p].sends = 0

\* C5: a run that ends in FetchFailed, NoEntriesFound or NoMatchYet has not
\* called send_notification, has called save_state only inside load_state, and
\* leaves the state file as load_state left it, its notified flag equal to
\* the one load_state returned.
C5_TransientOutcomesKeepState ==
    \A p \in procs :
        run[p].outcome \in Transient =>
            /\ run[p].sends = 0
            /\ run[p].saves = run[p].loadSaves
            /\ run[p].load = "returned"
            /\ file = run[p].afterLoad
            /\ Notified(file) = Notified(run[p].loaded)

\* C5 witness: a run whose load_state wrote the default state ended NoMatchYet
C5_Witness ==
    \E p \in procs :
        /\ run[p].outcome = "NoMatchYet"
        /\ run[p].loadSaves = 1
        /\ run[p].fetches = 1

\* C6: a run that ends in UnexpectedError has a non-zero status and leaves the
\* persisted notified flag as it was when the run began.
C6_UnexpectedErrorKeepsState ==
    \A p \in procs :
        run[p].outcome = "UnexpectedError" =>
            /\ run[p].rc # 0
            /\ Notified(file) = Notified(run[p].start)

\* C7: load_state never raises, and for an absent or unparseable state file it
\* returns {notified: false} with the file holding {notified: false} then.
C7_SelfHealingLoad ==
    \A p \in procs :
        /\ run[p].load # "raised"
        /\ (run[p].load = "returned" /\ run[p].start.kind # "object")
              => /\ run[p].loaded = Json(default_state)
                 /\ run[p].afterLoad = Json(default_state)

IsOldIconatListing(line) ==
    /\ Contains(Lower(line), "iconat")
    /\ ContainsAny(line, <<"2022", "2023", "2024">>)
    /\ ~Contains(line, "2025")

IsOther2025Listing(line) ==
    Contains(line, "2025") /\ ~Contains(Lower(line), "iconat")

\* every listing (line) of the page is an old ICONAT one or a 2025 one of
\* another conference
ScenarioB(page) ==
    /\ page.ok
    /\ PageLines(page.nodes) # <<>>
    /\ \A k \in 1..Len(PageLines(page.nodes)) :
          \/ IsOldIconatListing(PageLines(page.nodes)[k])
          \/ IsOther2025Listing(PageLines(page.nodes)[k])

\* C8: on a page of old ICONAT listings and 2025 listings of other
\* conferences no entry matches, send_notification is not called, the run
\* ends NoMatchYet and the state stays notified=false.
C8_NoFalsePositive ==
    \A p \in procs :
        ScenarioB(local[p].html) =>
            /\ \A k \in 1..Len(local[p].entries) : ~EntryMatches(local[p].entries[k])
            /\ run[p].sends = 0
            /\ (local[p].pc = "idle" /\ run[p].outcome # "Killed"
                  => run[p].outcome = "NoMatchYet" /\ ~Notified(file))

\* C9: when a line of the page's text has both "2025" and "iconat", the
\* entries returned hold one that contains the line, and a match is found.
C9_NoMissedDetection ==
    \A p \in procs :
        Parsed(p) =>
            \A k \in 1..Len(PageLines(local[p].html.nodes)) :
                EntryMatches(PageLines(local[p].html.nodes)[k]) =>
                    /\ \E e \in 1..Len(local[p].entries) :
                          Contains(local[p].entries[e], PageLines(local[p].html.nodes)[k])
                    /\ check_for_2025_iconat(local[p].entries) # 0

\* the first strategy, in order, that yields an entry
FirstYielding(nodes) ==
    IF Strategy1(nodes) # <<>> THEN Strategy1(nodes)
    ELSE IF Strategy2(nodes) # <<>> THEN Strategy2(nodes)
    ELSE Strategy3(nodes)

\* C10: the entries are those of the first strategy, in order, that yields
\* any: a later strategy adds entries only when every earlier one yielded none.
C10_EarlyStop ==
    \A p \in procs :
        Parsed(p) => local[p].entries = UniqueEntries(FirstYielding(local[p].html.nodes))

\* C10 as amended: strategy 2 adds its entries only when strategy 1 yielded
\* none, strategy 3 always adds its entries, and the result is the
\* de-duplicated concatenation in strategy order.
C10_FallbackOrder ==
    \A p \in procs :
        Parsed(p) =>
            LET nodes == local[p].html.nodes
            IN  local[p].entries =
                  UniqueEntries(Strategy1(nodes)
                                \o (IF Strategy1(nodes) = <<>> THEN Strategy2(nodes)
                                                              ELSE <<>>)
                                \o Strategy3(nodes))

\* C10 witness: strategy 1 yielded entries, strategy 2 was skipped although it
\* would have yielded some, and strategy 3 added one to the result
C10_Witness ==
    \E p \in procs :
        /\ Parsed(p)
        /\ Strategy1(local[p].html.nodes) # <<>>
        /\ Strategy2(local[p].html.nodes) # <<>>
        /\ Strategy3(local[p].html.nodes) # <<>>
        /\ Len(local[p].entries) > Len(UniqueEntries(Strategy1(local[p].html.nodes)))

\* the outcomes of a run that returned from main()
ZeroOutcomes ==
    {"AlreadyNotified", "NoEntriesFound", "NoMatchYet", "NotifiedSuccessfully"}

NonZeroOutcomes == {"FetchFailed", "NotifiedButSendFailed", "UnexpectedError"}

\* C11: a run that returned from main() has exit status 0 exactly when its
\* outcome is AlreadyNotified, NoEntriesFound, NoMatchYet or
\* NotifiedSuccessfully, and a non-zero status exactly when it is FetchFailed,
\* NotifiedButSendFailed or UnexpectedError.
C11_ExitStatusMapping ==
    \A p \in procs :
        run[p].outcome \in ZeroOutcomes \cup NonZeroOutcomes =>
            /\ (run[p].rc = 0 <=> run[p].outcome \in ZeroOutcomes)
            /\ (run[p].rc # 0 <=> run[p].outcome \in NonZeroOutcomes)

\* C11 witness: a run whose send failed and whose save worked returned 1
C11_Witness ==
    \E p \in procs :
        /\ run[p].outcome = "NotifiedButSendFailed"
        /\ run[p].rc = 1
        /\ run[p].sends = 1
        /\ Notified(file)

\* the position of a step in main(); a run that is over is at "idle"
Rank(pc) ==
    CASE pc = "idle" -> 0
      [] pc = "load" -> 1
      [] pc = "heal" -> 2
      [] pc = "fetch" -> 3
      [] pc = "parse" -> 4
      [] pc = "check" -> 5
      [] pc = "send" -> 6
      [] pc = "save" -> 7

\* a run only moves forward through main(), or ends
Forward(p) ==
    local'[p].pc # local[p].pc =>
        \/ local'[p].pc = "idle"
        \/ Rank(local[p].pc) < Rank(local'[p].pc)

\* C12: every run performs at most one fetch, one extraction pass, one match
\* check, one notification dispatch and one state save.
C12_OneOfEach ==
    \A p \in procs :
        /\ run[p].fetches <= 1
        /\ run[p].parses <= 1
        /\ run[p].checks <= 1
        /\ run[p].sends <= 1
        /\ run[p].saves <= 1

\* C12 as amended: every run performs at most one fetch, one extraction pass,
\* one match check and one notification dispatch, and at most two state saves:
\* at most one by load_state and at most one by main after the dispatch; a run
\* never goes back to an earlier step, so it ends after at most seven steps.
C12_Budget ==
    /\ [](\A p \in procs :
            /\ run[p].fetches <= 1
            /\ run[p].parses <= 1
            /\ run[p].checks <= 1
            /\ run[p].sends <= 1
            /\ run[p].loadSaves <= 1
            /\ run[p].saves - run[p].loadSaves <= 1
            /\ run[p].saves - run[p].loadSaves <= run[p].sends)
    /\ [][\A p \in procs : Forward(p)]_vars

\* C12 witness: a run that found no usable state file saved the default in
\* load_state, dispatched, and saved again
C12_Witness ==
    \E p \in procs :
        /\ run[p].loadSaves = 1
        /\ run[p].saves = 2
        /\ run[p].fetches = 1
        /\ run[p].parses = 1
        /\ run[p].checks = 1
        /\ run[p].sends = 1
        /\ run[p].outcome = "NotifiedSuccessfully"

\* the outcomes of a run that did not reach the dispatch, or failed
NoDispatchOutcomes ==
    {"AlreadyNotified", "FetchFailed", "NoEntriesFound", "NoMatchYet",
     "UnexpectedError"}

\* the step is main's save_state after a dispatch for a matching entry
DispatchSave(p) ==
    /\ local[p].pc = "save"
    /\ local[p].matching # 0
    /\ run[p].sends = 1
    /\ run'[p].outcome \in {"NotifiedSuccessfully", "NotifiedButSendFailed"}

\* C13: the persisted flag goes from false to true only in the save of a run
\* that found a match and called send_notification (sent or failed), and a run
\* that ends AlreadyNotified, FetchFailed, NoEntriesFound, NoMatchYet or
\* UnexpectedError leaves no flag set that was not set when it started.
C13_DoneOnlyThroughDispatch ==
    /\ [][(~Notified(file) /\ Notified(file')) => \E p \in procs : DispatchSave(p)]_vars
    /\ [](\A p \in procs :
            run[p].outcome \in NoDispatchOutcomes =>
                (Notified(file) => Notified(run[p].start)))

\* C13 witness: a run that started with the flag unset and whose send failed
\* has set the flag
C13_Witness ==
    \E p \in procs :
        /\ ~Notified(run[p].start)
        /\ Notified(file)
        /\ local[p].matching # 0
        /\ run[p].sends = 1
        /\ run[p].outcome = "NotifiedButSendFailed"

\* C14: when runs are started again and again, every fetch returns a page
\* with a matching entry and every save succeeds, the state file eventually
\* says notified=true for good, a run that starts with notified=true returns
\* AlreadyNotified, and no run dispatches twice.
C14_NotifyThenQuiesce ==
    /\ <>[]Notified(file)
    /\ [](\A p \in procs :
            /\ run[p].sends <= 1
            /\ (Notified(run[p].start) /\ run[p].outcome # ""
                  => run[p].outcome = "AlreadyNotified"))

\* C15: when the runs are serialized (no run starts while another is in
\* progress) and every run completes its save, at most one notification is
\* dispatched.
C15_SerializedAtMostOnce == ~overlapped => sends <= 1

\* two overlapping runs have both loaded notified=false and both dispatched
C15_DoubleSend ==
    /\ overlapped
    /\ \A p \in procs :
           /\ run[p].load = "returned"
           /\ ~Notified(run[p].loaded)
           /\ run[p].sends = 1
    /\ runs = 2

\* check_for_2025_iconat has returned in the run of p
Checked(p) == run[p].checks = 1

\* the entry has the year token as written and the keyword in any case
HasBoth(entry) == Contains(entry, "2025") /\ Contains(Lower(entry), "iconat")

\* C16: check_for_2025_iconat returns the first entry, in order, that
\* contains "2025" and whose lower-cased text contains "iconat", and returns
\* no match when no single entry has both.
C16_FirstMatchWins ==
    \A p \in procs :
        Checked(p) =>
            LET entries == local[p].entries
                hit == local[p].matching
            IN  IF \E k \in 1..Len(entries) : HasBoth(entries[k])
                THEN /\ hit \in 1..Len(entries)
                     /\ HasBoth(entries[hit])
                     /\ \A k \in 1..(hit - 1) : ~HasBoth(entries[k])
                ELSE hit = 0

\* C16 witness: the year is in one entry and the keyword in another, and the
\* check returned no match
C16_Witness ==
    \E p \in procs :
        /\ Checked(p)
        /\ local[p].matching = 0
        /\ \E i, j \in 1..Len(local[p].entries) :
              /\ i # j
              /\ Contains(local[p].entries[i], "2025")
              /\ Contains(Lower(local[p].entries[j]), "iconat")

\* the match is an entry after one that does not match
C16_LaterMatch ==
    \E p \in procs : Checked(p) /\ local[p].matching > 1

\* two entries are the same for the de-duplication: their first 100
\* characters are equal without regard to case
SameKey(a, b) == Prefix(Lower(a), 100) = Prefix(Lower(b), 100)

\* the positions of the entries that no earlier entry equals in that sense
FirstOccurrences(all) ==
    {k \in 1..Len(all) : \A j \in 1..(k - 1) : ~SameKey(all[j], all[k])}

\* the i-th of these positions, in increasing order
NthOccurrence(all, i) ==
    CHOOSE k \in FirstOccurrences(all) :
        Cardinality({j \in FirstOccurrences(all) : j <= k}) = i

\* C17: the sequence parse_proceedings returns has no two entries whose first
\* 100 characters are equal case-insensitively, and it is the subsequence of
\* first occurrences of the concatenated strategy outputs, in first-seen order.
C17_DeDuplication ==
    \A p \in procs :
        Parsed(p) =>
            LET all == CollectEntries(local[p].html.nodes)
                out == local[p].entries
            IN  /\ \A i, j \in 1..Len(out) : i # j => ~SameKey(out[i], out[j])
                /\ Len(out) = Cardinality(FirstOccurrences(all))
                /\ \A i \in 1..Len(out) : out[i] = all[NthOccurrence(all, i)]

\* C17 witness: the strategies gave two different entries with the same first
\* 100 characters, and only the first of them was returned
C17_Witness ==
    \E p \in procs :
        /\ Parsed(p)
        /\ LET all == CollectEntries(local[p].html.nodes)
           IN  /\ Len(local[p].entries) < Len(all)
               /\ \E i, j \in 1..Len(all) :
                     /\ i < j
                     /\ all[i] # all[j]
                     /\ SameKey(all[i], all[j])
                     /\ all[i] = local[p].entries[1]

\* parse_proceedings has been called in the run of p and main has gone on
Extracted(p) == run[p].parses = 1

\* no strategy gave an entry for the page
NoStrategyYields(nodes) ==
    /\ Strategy1(nodes) = <<>>
    /\ Strategy2(nodes) = <<>>
    /\ Strategy3(nodes) = <<>>

\* C18: for every page, parse_proceedings returns a sequence without raising;
\* the sequence is empty exactly when parsing failed or no strategy gave an
\* entry, and then main returns NoEntriesFound with status 0, not an error.
C18_ExtractionTotal ==
    \A p \in procs :
        Extracted(p) =>
            /\ run[p].outcome # "UnexpectedError"
            /\ (local[p].entries = <<>>
                  <=> (~local[p].html.ok \/ NoStrategyYields(local[p].html.nodes)))
            /\ (local[p].entries = <<>>
                  <=> (run[p].outcome = "NoEntriesFound" /\ run[p].rc = 0
                       /\ local[p].pc = "idle"))

\* C18 witness: the parser raised on the page and the run ended NoEntriesFound
C18_Witness ==
    \E p \in procs :
        /\ Extracted(p)
        /\ ~local[p].html.ok
        /\ local[p].entries = <<>>
        /\ run[p].outcome = "NoEntriesFound"
        /\ run[p].rc = 0

\* record b is record a with notified set to true and nothing else changed
OnlyNotifiedSet(a, b) ==
    /\ DOMAIN b = DOMAIN a \cup {"notified"}
    /\ b["notified"] = TRUE
    /\ \A k \in DOMAIN a \ {"notified"} : b[k] = a[k]

\* C19: for a state file that holds a JSON object when the run starts,
\* load_state does not raise, saving what load_state returned gives the record
\* the file held, and a run that dispatched leaves the record it started with,
\* changed in the notified field only.
C19_RoundTripAndFields ==
    \A p \in procs :
        run[p].start.kind = "object" =>
            /\ run[p].load # "raised"
            /\ (run[p].load = "returned" =>
                  FileAfterSave(run[p].afterLoad, run[p].loaded.obj, "written").obj
                    = run[p].start.obj)
            /\ (run[p].outcome \in {"NotifiedSuccessfully", "NotifiedButSendFailed"}
                  => /\ file.kind = "object"
                     /\ OnlyNotifiedSet(run[p].start.obj, file.obj))

\* the text is longer than 20 characters, has a year token and has one of the
\* four conference tokens of strategy 1
EmitsWithLineTokens(text) ==
    /\ Len(text) > 20
    /\ ContainsAny(text, <<"2022", "2023", "2024", "2025">>)
    /\ ContainsAny(Lower(text),
                   <<"iconat", "international conference",
                     "conference for advancement", "advancement in technology">>)

\* C20: when strategy 2 runs (strategy 1 gave nothing), it emits the text of
\* a structural node (li, div, p, span, article), in document order, exactly
\* when the text is longer than 20 characters, contains one of the years 2022
\* to 2025 and contains, in any case, one of the four conference tokens of
\* strategy 1.
C20_SameTokens ==
    \A p \in procs :
        (Parsed(p) /\ Strategy1(local[p].html.nodes) = <<>>) =>
            LET nodes == local[p].html.nodes
                found == FindAll(nodes, 0, {"li", "div", "p", "span", "article"})
            IN  Strategy2(nodes) =
                  Concat([k \in 1..Len(found) |->
                            IF EmitsWithLineTokens(GetText(nodes, found[k], " "))
                            THEN <<GetText(nodes, found[k], " ")>>
                            ELSE <<>>])

====
